---- MODULE Spec2Model ----
(***************************************************************************)
(* Model of package crypto (src/crypto/crypto.go): the decryption half of  *)
(* the OPVault key hierarchy.  Every exported function is a pure function  *)
(* of its arguments, so the state machine is a caller that picks an input  *)
(* blob and a KeyPair, calls one function and records what it returned.    *)
(*                                                                         *)
(* Byte slices are sequences of integers 0..255.  The library primitives   *)
(* (HMAC-SHA-256, AES-256, SHA-512) are replaced by small keyed functions  *)
(* that keep the shapes the code relies on: output length, determinism,    *)
(* key dependence, and for AES-CBC the exact chaining structure.           *)
(***************************************************************************)
EXTENDS Integers, Sequences, FiniteSets, TLC

VARIABLES pc, op, blob, kp, args, res, prev, how

vars == <<pc, op, blob, kp, args, res, prev, how>>

(***************************************************************************)
(* Program constants                                                       *)
(***************************************************************************)
EncKeySize == 32
MACKeySize == 32
SHA256Size == 32
AESBlockSize == 16
SHA512Size == 64
DerivedKeyLen == 64
Uint64Size == 8

OPData01Magic == <<111, 112, 100, 97, 116, 97, 48, 49>>

ErrNil == "nil"
ErrIncompleteHeader == "incomplete header"
ErrIncompleteCiphertext == "incomplete ciphertext"
ErrIncompleteIV == "incomplete IV"
ErrIncompleteMagic == "incomplete magic"
ErrIncompleteMAC == "incomplete MAC"
ErrIncorrectMAC == "incorrect MAC"
ErrInvalidMagic == "invalid magic"
\* errors of the standard library that the code passes through
ErrEOF == "EOF"
ErrUnexpectedEOF == "unexpected EOF"
ErrKeySize == "crypto/aes: invalid key size"
\* run-time panics: the call does not return at all
PanicNotFullBlocks == "panic: crypto/cipher: input not full blocks"
PanicSliceBounds == "panic: slice bounds out of range"

Panics == {PanicNotFullBlocks, PanicSliceBounds}

(***************************************************************************)
(* Bounds of the input space                                               *)
(***************************************************************************)
NumKeys == 2
MaxIters == 3
NumSalts == 2

(***************************************************************************)
(* Return values.  A Go (value, error) pair; nil is kept apart from an     *)
(* empty, non-nil slice.                                                   *)
(***************************************************************************)
NoKeyPair == [EncKey |-> <<>>, MACKey |-> <<>>]

RetBytes(b) == [nil |-> FALSE, bytes |-> b, keys |-> NoKeyPair, err |-> ErrNil]

RetKeyPair(k) == [nil |-> FALSE, bytes |-> <<>>, keys |-> k, err |-> ErrNil]

RetErr(e) == [nil |-> TRUE, bytes |-> <<>>, keys |-> NoKeyPair, err |-> e]

NoResult == RetErr(ErrNil)

(***************************************************************************)
(* Byte helpers                                                            *)
(***************************************************************************)
Min(a, b) == IF a < b THEN a ELSE b

Slice(s, lo, hi) == SubSeq(s, lo + 1, hi)

RECURSIVE XorByte(_, _)
XorByte(a, b) ==
    IF a = 0 THEN b
    ELSE IF b = 0 THEN a
    ELSE ((a + b) % 2) + 2 * XorByte(a \div 2, b \div 2)

XorBytes(x, y) == [i \in 1..Len(x) |-> XorByte(x[i], y[i])]

(***************************************************************************)
(* Library primitives                                                      *)
(***************************************************************************)
\* hmac.New(sha256.New, key); Write(data); Sum(nil).  An ideal MAC: 32 tag
\* symbols, symbol j packing message bytes j, j+32, j+64 (with their
\* presence) and key byte j, so that for messages of at most 96 bytes two
\* different (key, message) pairs never share a tag.
MsgDigit(data, i) == IF i <= Len(data) THEN (data[i] % 256) + 1 ELSE 0

KeyMix(key, j) == IF j <= Len(key) THEN key[j] % 126 ELSE 0

HMAC(key, data) ==
    [j \in 1..SHA256Size |->
        MsgDigit(data, j)
        + 257 * MsgDigit(data, j + SHA256Size)
        + 257 * 257 * MsgDigit(data, j + 2 * SHA256Size)
        + 257 * 257 * 257 * KeyMix(key, j)]

\* hmac.Equal: equal length and equal contents
HMACEqual(x, y) == x = y

\* One AES-256 block operation: a keyed permutation of 16-byte blocks.
AESEncryptBlock(key, block) ==
    [j \in 1..AESBlockSize |->
        (block[j] + key[j] + 3 * key[j + AESBlockSize] + j) % 256]

AESDecryptBlock(key, block) ==
    [j \in 1..AESBlockSize |->
        (block[j] + 4 * 256 - key[j] - 3 * key[j + AESBlockSize] - j) % 256]

Block(s, i) == SubSeq(s, (i - 1) * AESBlockSize + 1, i * AESBlockSize)

\* cipher.NewCBCDecrypter(b, iv).CryptBlocks(dst, src), src full blocks:
\* P[i] = D(C[i]) xor C[i-1], with C[0] = iv
RECURSIVE CBCDecryptFrom(_, _, _, _)
CBCDecryptFrom(key, prevBlock, src, i) ==
    IF i * AESBlockSize > Len(src) THEN <<>>
    ELSE XorBytes(AESDecryptBlock(key, Block(src, i)), prevBlock)
         \o CBCDecryptFrom(key, Block(src, i), src, i + 1)

CBCDecrypt(key, iv, src) == CBCDecryptFrom(key, iv, src, 1)

\* the encrypting direction (what a writer of the format does)
RECURSIVE CBCEncryptFrom(_, _, _, _)
CBCEncryptFrom(key, prevBlock, src, i) ==
    IF i * AESBlockSize > Len(src) THEN <<>>
    ELSE LET c == AESEncryptBlock(key, XorBytes(Block(src, i), prevBlock))
         IN  c \o CBCEncryptFrom(key, c, src, i + 1)

CBCEncrypt(key, iv, src) == CBCEncryptFrom(key, iv, src, 1)

\* aes.NewCipher: the key must be 16, 24 or 32 bytes
AESKeyOK(key) == Len(key) \in {16, 24, 32}

\* sha512.Sum512: a 64-byte digest of the whole message
RECURSIVE ColumnSum(_, _, _)
ColumnSum(data, i, step) ==
    IF i > Len(data) THEN 0
    ELSE ((data[i] + 1) * (1 + 2 * (i \div step)) + ColumnSum(data, i + step, step)) % 256

Sum512(data) ==
    [j \in 1..SHA512Size |-> (ColumnSum(data, j, SHA512Size) + 7 * Len(data) + 31 * j) % 256]

\* bytes.Reader.Read / bytes.Buffer.Read into a buffer of n > 0 bytes
ReaderRead(buf, n) ==
    IF Len(buf) = 0
    THEN [n |-> 0, err |-> ErrEOF, data |-> <<>>, rest |-> <<>>]
    ELSE LET m == Min(n, Len(buf))
         IN  [n |-> m, err |-> ErrNil,
              data |-> SubSeq(buf, 1, m), rest |-> SubSeq(buf, m + 1, Len(buf))]

\* binary.Read(r, binary.LittleEndian, &u64): io.ReadFull of 8 bytes.  The
\* value is kept as its eight base-256 digits, least significant first.
BinaryReadUint64(buf) ==
    IF Len(buf) = 0
    THEN [err |-> ErrEOF, value |-> <<>>, rest |-> <<>>]
    ELSE IF Len(buf) < Uint64Size
    THEN [err |-> ErrUnexpectedEOF, value |-> <<>>, rest |-> <<>>]
    ELSE [err |-> ErrNil, value |-> SubSeq(buf, 1, Uint64Size),
          rest |-> SubSeq(buf, Uint64Size + 1, Len(buf))]

\* x % m for a uint64 held as little-endian base-256 digits
RECURSIVE Uint64ModFrom(_, _, _)
Uint64ModFrom(x, i, m) ==
    IF i > Len(x) THEN 0
    ELSE (Uint64ModFrom(x, i + 1, m) * 256 + x[i]) % m

Uint64Mod(x, m) == Uint64ModFrom(x, 1, m)

\* the little-endian digits of a small non-negative integer
Uint64Of(n) ==
    [i \in 1..Uint64Size |->
        IF i = 1 THEN n % 256
        ELSE IF i = 2 THEN (n \div 256) % 256
        ELSE IF i = 3 THEN (n \div 65536) % 256
        ELSE 0]

(***************************************************************************)
(* The functions of the package                                            *)
(***************************************************************************)
authenticate_NoCompare(b, k) ==
    IF Len(b) < SHA256Size THEN RetErr(ErrIncompleteMAC)
    ELSE RetBytes(Slice(b, 0, Len(b) - SHA256Size))

authenticate_OffByOne(b, k) ==
    IF Len(b) <= SHA256Size THEN RetErr(ErrIncompleteMAC)
    ELSE LET macOff == Len(b) - SHA256Size
             data == Slice(b, 0, macOff)
         IN  IF ~HMACEqual(Slice(b, macOff, Len(b)), HMAC(k.MACKey, data))
             THEN RetErr(ErrIncorrectMAC)
             ELSE RetBytes(data)

authenticate(b, k) ==
    IF Len(b) < SHA256Size THEN RetErr(ErrIncompleteMAC)
    ELSE LET macOff == Len(b) - SHA256Size
             data == Slice(b, 0, macOff)
             dataMAC == Slice(b, macOff, Len(b))
             expectedMAC == HMAC(k.MACKey, data)
         IN  IF ~HMACEqual(dataMAC, expectedMAC)
             THEN RetErr(ErrIncorrectMAC)
             ELSE RetBytes(data)

decrypt(b, k) ==
    LET rd == ReaderRead(b, AESBlockSize)
        iv == rd.data
        ciphertext == rd.rest
    IN  IF rd.err # ErrNil THEN RetErr(rd.err)
        ELSE IF rd.n # AESBlockSize THEN RetErr(ErrIncompleteIV)
        ELSE IF Len(ciphertext) < AESBlockSize THEN RetErr(ErrIncompleteCiphertext)
        ELSE IF ~AESKeyOK(k.EncKey) THEN RetErr(ErrKeySize)
        ELSE IF Len(ciphertext) % AESBlockSize # 0 THEN RetErr(PanicNotFullBlocks)
        ELSE RetBytes(CBCDecrypt(k.EncKey, iv, ciphertext))

PadLen_Conditional(ptLen) == (AESBlockSize - Uint64Mod(ptLen, AESBlockSize)) % AESBlockSize

PadLen(ptLen) == AESBlockSize - Uint64Mod(ptLen, AESBlockSize)

\* the part of DecryptOPData01 after authentication, on the verified payload
DecodeVerified(payload, k) ==
    LET rm == ReaderRead(payload, Len(OPData01Magic))
        rl == BinaryReadUint64(rm.rest)
        padLen == PadLen(rl.value)
        pt == decrypt(rl.rest, k)
    IN  IF rm.err # ErrNil THEN RetErr(rm.err)
        ELSE IF rm.n # Len(OPData01Magic) THEN RetErr(ErrIncompleteMagic)
        ELSE IF rm.data # OPData01Magic THEN RetErr(ErrInvalidMagic)
        ELSE IF rl.err # ErrNil THEN RetErr(rl.err)
        ELSE IF pt.err # ErrNil THEN RetErr(pt.err)
        ELSE IF padLen > Len(pt.bytes) THEN RetErr(PanicSliceBounds)
        ELSE RetBytes(Slice(pt.bytes, padLen, Len(pt.bytes)))

DecryptOPData01_ParseFirst(opdata, k) ==
    LET parsed == DecodeVerified(Slice(opdata, 0, Len(opdata) - Min(Len(opdata), SHA256Size)), k)
        auth == authenticate(opdata, k)
    IN  IF parsed.err # ErrNil THEN parsed
        ELSE IF auth.err # ErrNil THEN RetErr(auth.err)
        ELSE parsed

DecryptOPData01(opdata, k) ==
    LET auth == authenticate(opdata, k)
    IN  IF auth.err # ErrNil THEN RetErr(auth.err)
        ELSE DecodeVerified(auth.bytes, k)

DecryptMasterKeys(opdata, derivedKeys) ==
    LET mk == DecryptOPData01(opdata, derivedKeys)
        data == Sum512(mk.bytes)
    IN  IF mk.err # ErrNil THEN RetErr(mk.err)
        ELSE RetKeyPair([EncKey |-> Slice(data, 0, 32), MACKey |-> Slice(data, 32, 64)])

DecryptItemKey(itemKey, k) ==
    LET auth == authenticate(itemKey, k)
        pt == decrypt(auth.bytes, k)
    IN  IF auth.err # ErrNil THEN RetErr(auth.err)
        ELSE IF pt.err # ErrNil THEN RetErr(pt.err)
        ELSE IF EncKeySize + MACKeySize > Len(pt.bytes) THEN RetErr(PanicSliceBounds)
        ELSE RetKeyPair([EncKey |-> Slice(pt.bytes, 0, EncKeySize),
                         MACKey |-> Slice(pt.bytes, EncKeySize, EncKeySize + MACKeySize)])

\* HMAC-SHA-512 as the pseudorandom function of PBKDF2
PRF512(password, msg) == Sum512(password \o <<Len(password) % 256>> \o msg)

\* pbkdf2.Key's inner loop: for n := 2; n <= iter; n++ { U = PRF(U); T ^= U }
RECURSIVE PBKDF2Loop(_, _, _, _, _)
PBKDF2Loop(password, U, T, n, iter) ==
    IF n > iter THEN T
    ELSE LET U2 == PRF512(password, U)
         IN  PBKDF2Loop(password, U2, XorBytes(T, U2), n + 1, iter)

\* pbkdf2.Key(password, salt, iter, keyLen, sha512.New) for keyLen <= 64:
\* one block, T = U_1 xor ... xor U_iter; an iter below 2 leaves T = U_1
PBKDF2Key(password, salt, iter, keyLen) ==
    LET U1 == PRF512(password, salt \o <<0, 0, 0, 1>>)
    IN  Slice(PBKDF2Loop(password, U1, U1, 2, iter), 0, keyLen)

ComputeDerivedKeys(pass, salt, nIters) ==
    LET data == PBKDF2Key(pass, salt, nIters, DerivedKeyLen)
    IN  RetKeyPair([EncKey |-> Slice(data, 0, 32), MACKey |-> Slice(data, 32, 64)])

(***************************************************************************)
(* Inputs: key pairs, containers and blobs as a writer of the formats      *)
(* produces them, and every truncation and tag damage of them.             *)
(***************************************************************************)
KeyPairOf(s) ==
    [EncKey |-> [j \in 1..EncKeySize |-> (17 * s + 5 * j) % 126],
     MACKey |-> [j \in 1..MACKeySize |-> (29 * s + 3 * j) % 126]]

KeyPairs == {KeyPairOf(s) : s \in 1..NumKeys}

IV0 == [i \in 1..AESBlockSize |-> (11 * i) % 256]

Hello == <<104, 101, 108, 108, 111>>

OneBlock == [i \in 1..AESBlockSize |-> 64 + i]

ItemKeyMaterial == [i \in 1..(EncKeySize + MACKeySize) |-> (7 * i + 1) % 256]

MaxUint64 == [i \in 1..Uint64Size |-> 255]

BadMagic == <<111, 112, 100, 97, 116, 97, 48, 50>>

\* front padding of the writer: 16 - (len mod 16) bytes before the plaintext
FrontPadded(plain) ==
    [i \in 1..(AESBlockSize - (Len(plain) % AESBlockSize)) |-> (37 * i) % 256] \o plain

\* magic, declared length, iv, ciphertext
Body(magic, declared, plain, sk) ==
    magic \o declared \o IV0 \o CBCEncrypt(sk.EncKey, IV0, FrontPadded(plain))

Declared(plain) ==
    {Uint64Of(Len(plain)), Uint64Of(Len(plain) + AESBlockSize), Uint64Of(3), MaxUint64}

Prefixes(s) == {SubSeq(s, 1, n) : n \in 0..Len(s)}

OPDataBodies(sk) ==
    {Body(OPData01Magic, d, Hello, sk) : d \in Declared(Hello)}
    \cup {Body(OPData01Magic, d, OneBlock, sk) : d \in Declared(OneBlock)}
    \cup {Body(BadMagic, Uint64Of(Len(Hello)), Hello, sk)}
    \cup Prefixes(Body(OPData01Magic, Uint64Of(Len(OneBlock)), OneBlock, sk))
    \cup Prefixes(Body(BadMagic, Uint64Of(Len(Hello)), Hello, sk))

\* iv, ciphertext of the first n bytes of the key material (n a multiple of 16,
\* or of the material followed by one more block)
ItemBody(material, sk) == IV0 \o CBCEncrypt(sk.EncKey, IV0, material)

ItemBodies(sk) ==
    {ItemBody(SubSeq(ItemKeyMaterial, 1, n), sk) : n \in {16, 48, 64}}
    \cup Prefixes(ItemBody(ItemKeyMaterial \o OneBlock, sk))

TagKinds == {"good", "flipped", "none"}

FlipLast(tag) == [tag EXCEPT ![Len(tag)] = XorByte(tag[Len(tag)], 1)]

WithTag(body, sk, t) ==
    IF t = "good" THEN body \o HMAC(sk.MACKey, body)
    ELSE IF t = "flipped" THEN body \o FlipLast(HMAC(sk.MACKey, body))
    ELSE body

OPDataInputs ==
    UNION {{WithTag(b, sk, t) : b \in OPDataBodies(sk), t \in TagKinds} : sk \in KeyPairs}

ItemInputs ==
    UNION {{WithTag(b, sk, t) : b \in ItemBodies(sk), t \in TagKinds} : sk \in KeyPairs}

DecryptInputs == UNION {ItemBodies(sk) : sk \in KeyPairs}

Passphrases == {<<>>, <<112, 119>>}

Salts == {[i \in 1..s |-> (13 * i) % 256] : s \in 1..NumSalts}

IterCounts == (0 - 1)..MaxIters

NoArgs == [pass |-> <<>>, salt |-> <<>>, nIters |-> 0]

TamperBits == {1, 2, 4, 8, 16, 32, 64, 128}

(***************************************************************************)
(* The caller                                                              *)
(***************************************************************************)
Init ==
    /\ pc = "ready"
    /\ op = "none"
    /\ blob = <<>>
    /\ kp = NoKeyPair
    /\ args = NoArgs
    /\ res = NoResult
    /\ prev = NoResult
    /\ how = "fresh"

CallAuthenticate ==
    /\ pc = "ready"
    /\ \E b \in ItemInputs, k \in KeyPairs :
        /\ blob' = b
        /\ kp' = k
        /\ res' = authenticate(b, k)
    /\ pc' = "done"
    /\ op' = "authenticate"
    /\ how' = "fresh"
    /\ UNCHANGED <<args, prev>>

CallDecrypt ==
    /\ pc = "ready"
    /\ \E b \in DecryptInputs, k \in KeyPairs :
        /\ blob' = b
        /\ kp' = k
        /\ res' = decrypt(b, k)
    /\ pc' = "done"
    /\ op' = "decrypt"
    /\ how' = "fresh"
    /\ UNCHANGED <<args, prev>>

CallDecryptOPData01 ==
    /\ pc = "ready"
    /\ \E b \in OPDataInputs, k \in KeyPairs :
        /\ blob' = b
        /\ kp' = k
        /\ res' = DecryptOPData01(b, k)
    /\ pc' = "done"
    /\ op' = "DecryptOPData01"
    /\ how' = "fresh"
    /\ UNCHANGED <<args, prev>>

CallDecryptMasterKeys ==
    /\ pc = "ready"
    /\ \E b \in OPDataInputs, k \in KeyPairs :
        /\ blob' = b
        /\ kp' = k
        /\ res' = DecryptMasterKeys(b, k)
    /\ pc' = "done"
    /\ op' = "DecryptMasterKeys"
    /\ how' = "fresh"
    /\ UNCHANGED <<args, prev>>

CallDecryptItemKey ==
    /\ pc = "ready"
    /\ \E b \in ItemInputs, k \in KeyPairs :
        /\ blob' = b
        /\ kp' = k
        /\ res' = DecryptItemKey(b, k)
    /\ pc' = "done"
    /\ op' = "DecryptItemKey"
    /\ how' = "fresh"
    /\ UNCHANGED <<args, prev>>

CallComputeDerivedKeys ==
    /\ pc = "ready"
    /\ \E p \in Passphrases, s \in Salts, n \in IterCounts :
        /\ args' = [pass |-> p, salt |-> s, nIters |-> n]
        /\ res' = ComputeDerivedKeys(p, s, n)
    /\ pc' = "done"
    /\ op' = "ComputeDerivedKeys"
    /\ UNCHANGED <<blob, kp, prev, how>>

\* the caller appends the recomputed tag to a verified payload and
\* authenticates the result again under the same key
ReAuthenticate ==
    /\ pc = "done"
    /\ op = "authenticate"
    /\ how = "fresh"
    /\ res.err = ErrNil
    /\ LET b == res.bytes \o HMAC(kp.MACKey, res.bytes)
       IN  /\ blob' = b
           /\ res' = authenticate(b, kp)
    /\ prev' = res
    /\ how' = "retagged"
    /\ UNCHANGED <<pc, op, kp, args>>

\* a container that decoded is altered in one bit of its length field, IV
\* or ciphertext, the tag left as it was, and decoded again under the same key
DecryptTampered ==
    /\ pc = "done"
    /\ op = "DecryptOPData01"
    /\ how = "fresh"
    /\ res.err = ErrNil
    /\ \E i \in (Len(OPData01Magic) + 1)..(Len(blob) - SHA256Size), bit \in TamperBits :
        LET b == [blob EXCEPT ![i] = XorByte(blob[i], bit)]
        IN  /\ blob' = b
            /\ res' = DecryptOPData01(b, kp)
    /\ prev' = res
    /\ how' = "tampered"
    /\ UNCHANGED <<pc, op, kp, args>>

Next ==
    \/ CallAuthenticate
    \/ CallDecrypt
    \/ CallDecryptOPData01
    \/ CallDecryptMasterKeys
    \/ CallDecryptItemKey
    \/ CallComputeDerivedKeys
    \/ ReAuthenticate
    \/ DecryptTampered

Spec == Init /\ [][Next]_vars

(***************************************************************************)
(* Properties                                                              *)
(***************************************************************************)
Returned(name) == pc = "done" /\ op = name

\* the tag check, stated on the blob itself
TagVerifies(b, k) ==
    /\ Len(b) >= SHA256Size
    /\ SubSeq(b, Len(b) - SHA256Size + 1, Len(b))
           = HMAC(k.MACKey, SubSeq(b, 1, Len(b) - SHA256Size))

Payload(b) == SubSeq(b, 1, Len(b) - SHA256Size)

ErrorKinds ==
    {ErrIncompleteIV, ErrIncompleteCiphertext, ErrIncompleteMagic,
     ErrInvalidMagic, ErrIncompleteMAC, ErrIncorrectMAC}

\* C1: DecryptOPData01 authenticates before anything else: a blob whose tag
\* does not verify, or that is shorter than the tag, gets the Authenticator's
\* error whatever its magic, length field, IV and ciphertext look like, and
\* every failure returns a nil plaintext.
C1_AuthenticateFirst ==
    Returned("DecryptOPData01") =>
        /\ Len(blob) < SHA256Size => res = RetErr(ErrIncompleteMAC)
        /\ (Len(blob) >= SHA256Size /\ ~TagVerifies(blob, kp))
               => res = RetErr(ErrIncorrectMAC)
        /\ res.err # ErrNil => (res.nil /\ res.bytes = <<>>)

\* C1 witness: a container with a wrong magic and a wrong tag was rejected
\* for its tag.
C1_Witness ==
    /\ Returned("DecryptOPData01")
    /\ Len(blob) >= SHA256Size + Len(OPData01Magic)
    /\ ~TagVerifies(blob, kp)
    /\ SubSeq(blob, 1, Len(OPData01Magic)) # OPData01Magic
    /\ res = RetErr(ErrIncorrectMAC)

\* C2: a container that decoded, then altered in its length field, IV or
\* ciphertext with the tag left unchanged, fails with ErrIncorrectMAC under
\* the same KeyPair and returns no plaintext.
C2_TamperDetected ==
    (Returned("DecryptOPData01") /\ how = "tampered" /\ prev.err = ErrNil)
        => res = RetErr(ErrIncorrectMAC)

\* C2 witness: a decoded container whose length field was altered was
\* decoded again.
C2_Witness ==
    /\ Returned("DecryptOPData01")
    /\ how = "tampered"
    /\ prev.err = ErrNil
    /\ Uint64Of(Len(prev.bytes)) # SubSeq(blob, 9, 16)
    /\ res.err = ErrIncorrectMAC

\* C3: a successful DecryptOPData01 returns exactly as many bytes as the
\* container's length field declares.
C3_LengthIsDeclared ==
    (Returned("DecryptOPData01") /\ res.err = ErrNil)
        => Uint64Of(Len(res.bytes)) = SubSeq(blob, 9, 16)

\* C4: after the tag has verified, a payload of fewer than 8 bytes fails with
\* ErrIncompleteMagic and one whose first 8 bytes are not "opdata01" with
\* ErrInvalidMagic; a container of fewer than 8 bytes fails with
\* ErrIncompleteMagic or ErrIncompleteMAC.
C4_MagicErrors ==
    Returned("DecryptOPData01") =>
        /\ (TagVerifies(blob, kp) /\ Len(Payload(blob)) < Len(OPData01Magic))
               => res.err = ErrIncompleteMagic
        /\ (TagVerifies(blob, kp) /\ Len(Payload(blob)) >= Len(OPData01Magic)
                /\ SubSeq(blob, 1, Len(OPData01Magic)) # OPData01Magic)
               => res.err = ErrInvalidMagic
        /\ Len(blob) < Len(OPData01Magic)
               => res.err \in {ErrIncompleteMagic, ErrIncompleteMAC}

\* C5: decrypt fails with ErrIncompleteIV on fewer than 16 bytes (none
\* included), with ErrIncompleteCiphertext when the rest is empty or not a
\* multiple of 16, and otherwise returns a plaintext as long as the rest.
C5_DecryptClassifies ==
    Returned("decrypt") =>
        IF Len(blob) < AESBlockSize THEN res.err = ErrIncompleteIV
        ELSE IF Len(blob) = AESBlockSize \/ Len(blob) % AESBlockSize # 0
        THEN res.err = ErrIncompleteCiphertext
        ELSE res.err = ErrNil /\ Len(res.bytes) = Len(blob) - AESBlockSize

\* C6: DecryptItemKey returns the two halves of the 64 decrypted bytes for a
\* blob of iv(16), ciphertext(64) and a correct tag, and for every other blob
\* fails with an error value that authenticate or decrypt returns (a run-time
\* panic is none) and no KeyPair.
C6_ItemKey ==
    Returned("DecryptItemKey") =>
        IF TagVerifies(blob, kp)
           /\ Len(Payload(blob)) = AESBlockSize + EncKeySize + MACKeySize
        THEN LET pt == CBCDecrypt(kp.EncKey, SubSeq(blob, 1, AESBlockSize),
                                  SubSeq(Payload(blob), AESBlockSize + 1, Len(Payload(blob))))
             IN  res = RetKeyPair([EncKey |-> SubSeq(pt, 1, 32), MACKey |-> SubSeq(pt, 33, 64)])
        ELSE /\ res.err \in {ErrIncompleteMAC, ErrIncorrectMAC, ErrIncompleteIV,
                             ErrIncompleteCiphertext, ErrEOF, ErrKeySize}
             /\ res.keys = NoKeyPair

\* C7: authenticate has three outcomes: ErrIncompleteMAC below 32 bytes,
\* ErrIncorrectMAC when the last 32 bytes are not the tag of the rest, and
\* otherwise the input without its last 32 bytes; a returned payload with
\* its recomputed tag appended authenticates again to the same payload.
C7_AuthenticateOutcomes ==
    Returned("authenticate") =>
        /\ IF Len(blob) < SHA256Size THEN res = RetErr(ErrIncompleteMAC)
           ELSE IF ~TagVerifies(blob, kp) THEN res = RetErr(ErrIncorrectMAC)
           ELSE res = RetBytes(Payload(blob))
        /\ how = "retagged" => (res.err = ErrNil /\ res = prev)

\* C7 witness: an empty verified payload was tagged again and authenticated
\* again.
C7_Witness ==
    /\ Returned("authenticate")
    /\ how = "retagged"
    /\ Len(blob) = SHA256Size
    /\ res = RetBytes(<<>>)

\* C8: ComputeDerivedKeys produces no KeyPair for an iteration count of zero
\* or less, and for a count of one or more the two halves of the 64-byte
\* stretched value.
C8_RejectsBadIterations ==
    Returned("ComputeDerivedKeys") =>
        IF args.nIters <= 0
        THEN res.err # ErrNil /\ res.keys = NoKeyPair
        ELSE LET data == PBKDF2Key(args.pass, args.salt, args.nIters, DerivedKeyLen)
             IN  res = RetKeyPair([EncKey |-> SubSeq(data, 1, 32),
                                   MACKey |-> SubSeq(data, 33, 64)])

\* C9: for every declared length padLen = 16 - (ptLen mod 16) lies in 1..16
\* and is 16 for a multiple of 16; a successful DecryptOPData01 returns the
\* decrypted buffer without its first padLen bytes, and dropping them never
\* leaves the buffer.
C9_PadLen ==
    (Returned("DecryptOPData01") /\ Len(blob) >= 2 * Uint64Size + SHA256Size) =>
        LET ptLen == SubSeq(blob, 9, 16)
            p == AESBlockSize - (blob[9] % AESBlockSize)
            buf == CBCDecrypt(kp.EncKey, SubSeq(blob, 17, 32),
                              SubSeq(blob, 33, Len(blob) - SHA256Size))
        IN  /\ PadLen(ptLen) \in 1..AESBlockSize
            /\ PadLen(ptLen) = p
            /\ res.err # PanicSliceBounds
            /\ res.err = ErrNil =>
                   (p <= Len(buf) /\ res.bytes = SubSeq(buf, p + 1, Len(buf)))

\* C9 witness: a container declaring a multiple of 16 decoded, with one full
\* block dropped as padding.
C9_Witness ==
    /\ Returned("DecryptOPData01")
    /\ res.err = ErrNil
    /\ blob[9] % AESBlockSize = 0
    /\ Len(res.bytes) = Len(blob) - SHA256Size - 2 * Uint64Size - 2 * AESBlockSize
    /\ res.bytes = OneBlock

\* C10: every failure of DecryptOPData01, DecryptMasterKeys and
\* DecryptItemKey is one of the six error kinds, and DecryptMasterKeys
\* returns the Container Decoder's error unchanged with no KeyPair.
C10_ClosedErrors ==
    /\ (pc = "done" /\ op \in {"DecryptOPData01", "DecryptMasterKeys", "DecryptItemKey"}
            /\ (res.err # ErrNil \/ res.nil))
           => res.err \in ErrorKinds
    /\ (Returned("DecryptMasterKeys") /\ DecryptOPData01(blob, kp).err # ErrNil)
           => res = RetErr(DecryptOPData01(blob, kp).err)

====
